---- MODULE Spec2Model ----
(***************************************************************************)
(* A model of lint_monitor (src/lint_monitor/monitor.py): LintMonitor's    *)
(* history of (timestamp, score) samples, the windowed improvement         *)
(* calculation, and the poll loop of run().                                *)
(*                                                                         *)
(* Time is counted in seconds.  A score is an integer number of            *)
(* hundredths (9.50 is 950).  Python's None is the empty sequence and a    *)
(* present value x is <<x>>.  A text is a sequence of characters, with the *)
(* phrase "Your code has been rated at" (no trailing space) as the single  *)
(* character MARK.                                                         *)
(***************************************************************************)
EXTENDS Integers, Sequences, FiniteSets, TLC

VARIABLES
    history,        \* self.history: deque of [ts, score], oldest first
    running,        \* self.running
    max_iterations, \* self.config.max_iterations (Infinity for float("inf"))
    iteration,      \* run()'s local counter
    pc,             \* where run() is
    now,            \* the wall clock, datetime.now()
    score,          \* _process_iteration's local score (None or <<s>>)
    timestamp,      \* _process_iteration's local timestamp
    improvements,   \* the mapping calculate_improvements returned last
    logCalls,       \* the calls of _log_score, in order: [ts, score]
    displayCalls,   \* the calls of _display_table, in order
    stopMsgs,       \* how often "Monitoring stopped." was printed
    providerCalls,  \* how often subprocess.run was invoked
    lastOutcome,    \* "none", or how the last provider invocation ended
    appended,       \* how many samples were ever appended to history
    sleeps,         \* how many time.sleep(INTERVAL) calls completed
    interruptedAt,  \* "none", or the pc at which KeyboardInterrupt arrived
    propagated,     \* "none", or the exception that left the call
    extract_arg,    \* the argument of a direct call of _extract_score
    peer,           \* a second LintMonitor of the process (NoPeer: none built)
    log_file        \* the lines of the file LOG_FILE names

vars == <<history, running, max_iterations, iteration, pc, now, score,
          timestamp, improvements, logCalls, displayCalls, stopMsgs,
          providerCalls, lastOutcome, appended, sleeps, interruptedAt,
          propagated, extract_arg, peer, log_file>>

-----------------------------------------------------------------------------
(* Bounds of the model *)

\* The largest finite iteration cap a configuration is drawn with.
MaxIterations == 3

\* The number of provider invocations after which an uncapped run is cut off.
MaxPolls == 3

\* The clock is not advanced past MaxClock seconds.
MaxClock == 62000

-----------------------------------------------------------------------------
(* Program constants *)

LOG_FILE == "pylint_monitor.log"

INTERVAL == 60

SecondsPerMinute == 60

SecondsPerHour == 3600

\* float("inf"), the default of MonitorConfig.max_iterations.
Infinity == -1

TIME_WINDOWS ==
    << [name |-> "5m",  delta |-> 5 * SecondsPerMinute],
       [name |-> "15m", delta |-> 15 * SecondsPerMinute],
       [name |-> "1h",  delta |-> 1 * SecondsPerHour],
       [name |-> "4h",  delta |-> 4 * SecondsPerHour],
       [name |-> "16h", delta |-> 16 * SecondsPerHour] >>

None == << >>

Some(x) == << x >>

\* No second LintMonitor has been constructed.
NoPeer == [constructed |-> FALSE]

-----------------------------------------------------------------------------
(* Texts *)

MARK == "Your code has been rated at"

Digits == {"0", "1", "2", "3", "4", "5", "6", "7", "8", "9"}

DigitValue(c) ==
    CASE c = "0" -> 0 [] c = "1" -> 1 [] c = "2" -> 2 [] c = "3" -> 3
      [] c = "4" -> 4 [] c = "5" -> 5 [] c = "6" -> 6 [] c = "7" -> 7
      [] c = "8" -> 8 [] c = "9" -> 9

\* Whether sep occurs in text at position i.
OccursAt(text, sep, i) ==
    /\ i >= 1
    /\ i + Len(sep) - 1 <= Len(text)
    /\ \A k \in 1..Len(sep) : text[i + k - 1] = sep[k]

\* The positions at which sep occurs in text.
Occurrences(text, sep) == {i \in 1..Len(text) : OccursAt(text, sep, i)}

Min(S) == CHOOSE x \in S : \A y \in S : x <= y

\* str.split(sep): the pieces between the successive occurrences of sep,
\* scanned from the left.
RECURSIVE split(_, _)
split(text, sep) ==
    LET occ == Occurrences(text, sep)
    IN  IF occ = {} THEN << text >>
        ELSE LET i == Min(occ)
             IN  << SubSeq(text, 1, i - 1) >>
                 \o split(SubSeq(text, i + Len(sep), Len(text)), sep)

\* str.strip(): without leading and trailing spaces.
RECURSIVE strip(_)
strip(text) ==
    IF text = << >> THEN text
    ELSE IF Head(text) = " " THEN strip(Tail(text))
    ELSE IF text[Len(text)] = " " THEN strip(SubSeq(text, 1, Len(text) - 1))
    ELSE text

RECURSIVE DigitsValue(_)
DigitsValue(ds) ==
    IF ds = << >> THEN 0
    ELSE 10 * DigitsValue(SubSeq(ds, 1, Len(ds) - 1)) + DigitValue(ds[Len(ds)])

AllDigits(ds) == \A k \in 1..Len(ds) : ds[k] \in Digits

\* The hundredths a fraction part of at most two digits stands for.
FractionValue(ds) ==
    IF Len(ds) = 0 THEN 0
    ELSE IF Len(ds) = 1 THEN 10 * DigitValue(ds[1])
    ELSE DigitsValue(ds)

\* An unsigned decimal literal: digits, with at most one "." and at least one
\* digit; None when it is none (float raises ValueError).
UnsignedFloat(s) ==
    LET parts == split(s, << "." >>)
    IN  IF Len(parts) > 2 THEN None
        ELSE LET ip == parts[1]
                 fp == IF Len(parts) = 2 THEN parts[2] ELSE << >>
             IN  IF /\ AllDigits(ip)
                    /\ AllDigits(fp)
                    /\ Len(ip) + Len(fp) > 0
                    /\ Len(fp) <= 2
                 THEN Some(100 * DigitsValue(ip) + FractionValue(fp))
                 ELSE None

\* float(s): surrounding spaces are ignored, one sign is allowed.  Python's
\* float also reads exponent forms, "inf" and "nan"; the texts of the model
\* hold none of them, its numbers being hundredths.
float(s) ==
    LET t == strip(s)
    IN  IF t = << >> THEN None
        ELSE IF Head(t) = "-"
             THEN LET u == UnsignedFloat(Tail(t))
                  IN  IF u = None THEN None ELSE Some(0 - u[1])
        ELSE IF Head(t) = "+" THEN UnsignedFloat(Tail(t))
        ELSE UnsignedFloat(t)

-----------------------------------------------------------------------------
(* The score provider and the score extractor *)

\* What subprocess.run(..., check=True) can do: return the tool's stdout, or
\* raise CalledProcessError (a nonzero exit status, a tool killed by a signal).
T_950 == << MARK, " ", "9", ".", "5", "0", "/", "1", "0" >>

T_700 == << MARK, " ", "7", ".", "0", "0", "/", "1", "0" >>

T_800 == << MARK, " ", "8", ".", "0", "0", "/", "1", "0" >>

T_900 == << MARK, " ", "9", ".", "0", "0", "/", "1", "0" >>

\* Ratings outside [0, 10]: pylint rates below zero, and a wrapper can print
\* anything.
T_Negative == << MARK, " ", "-", "2", ".", "5", "0", "/", "1", "0" >>

T_1100 == << MARK, " ", "1", "1", ".", "0", "0", "/", "1", "0" >>

T_Invalid == << "I", "n", "v", "a", "l", "i", "d" >>

T_NoSpace == << MARK, "9", ".", "5", "0", "/", "1", "0" >>

T_Malformed == << MARK, " ", "a", "b", "c", "/", "1", "0" >>

ProviderTexts == {T_950, T_700, T_Invalid, T_NoSpace, T_Malformed, << >>}

ProviderOutcomes ==
    {[failed |-> FALSE, stdout |-> t] : t \in ProviderTexts}
    \cup {[failed |-> TRUE, stdout |-> t] : t \in {T_950, << >>}}

\* A call's result: the exception it raised ("none" when it returned) and the
\* value it returned.
Returned(v) == [raised |-> "none", value |-> v]

Raised(e) == [raised |-> e, value |-> None]

_run_pylint_nocheck(outcome) == Returned(Some(strip(outcome.stdout)))

\* _run_pylint: the stripped stdout, or None when the tool failed.  A text is
\* Some(text) here, so that None and the empty text differ.
_run_pylint(outcome) ==
    IF outcome.failed
    THEN Returned(None)
    ELSE Returned(Some(strip(outcome.stdout)))

_extract_score_try_last(text) ==
    LET pieces == split(text, << MARK, " " >>)
    IN  IF Len(pieces) < 2
        THEN Raised("IndexError")
        ELSE LET number == float(split(pieces[Len(pieces)], << "/" >>)[1])
             IN  IF number = None THEN Raised("ValueError")
                 ELSE Returned(number)

\* The try block of _extract_score: the text between the first and the second
\* "Your code has been rated at ", up to its first "/", is handed to float.
\* [1] of a one-piece split raises IndexError, float raises ValueError.
_extract_score_try(text) ==
    LET pieces == split(text, << MARK, " " >>)
    IN  IF Len(pieces) < 2
        THEN Raised("IndexError")
        ELSE LET number == float(split(pieces[2], << "/" >>)[1])
             IN  IF number = None THEN Raised("ValueError")
                 ELSE Returned(number)

_extract_score_value_error_only(last_line) ==
    IF last_line = None \/ last_line[1] = << >>
       \/ \A k \in 1..Len(last_line[1]) : last_line[1][k] # MARK
    THEN Returned(None)
    ELSE LET result == _extract_score_try(last_line[1])
         IN  IF result.raised = "ValueError" THEN Returned(None) ELSE result

\* _extract_score(last_line): None for no text, an empty text and a text
\* without the phrase; except (IndexError, ValueError) gives None as well.
_extract_score(last_line) ==
    IF last_line = None \/ last_line[1] = << >>
       \/ \A k \in 1..Len(last_line[1]) : last_line[1][k] # MARK
    THEN Returned(None)
    ELSE LET result == _extract_score_try(last_line[1])
         IN  IF result.raised \in {"IndexError", "ValueError"}
             THEN Returned(None)
             ELSE result

get_pylint_score_reraise(outcome) ==
    IF outcome.failed
    THEN Raised("CalledProcessError")
    ELSE _extract_score(_run_pylint(outcome).value)

\* get_pylint_score: CalledProcessError is caught here too; what
\* _extract_score returns or raises is passed on.
get_pylint_score(outcome) ==
    LET result == _run_pylint(outcome)
    IN  IF result.raised = "CalledProcessError"
        THEN Returned(None)
        ELSE _extract_score(result.value)

-----------------------------------------------------------------------------
(* The history store and the window improvement calculator *)

_get_window_scores_partition(h, current_time, window_delta) ==
    LET window_start == current_time - window_delta
        shorter == {TIME_WINDOWS[i].delta : i \in 1..Len(TIME_WINDOWS)}
                   \cap (0..(window_delta - 1))
        inside == SelectSeq(h, LAMBDA e :
                     /\ e.ts >= window_start
                     /\ \A d \in shorter : e.ts < current_time - d)
    IN  [i \in 1..Len(inside) |-> inside[i].score]

_get_window_scores_exclusive(h, current_time, window_delta) ==
    LET window_start == current_time - window_delta
        inside == SelectSeq(h, LAMBDA e : e.ts > window_start)
    IN  [i \in 1..Len(inside) |-> inside[i].score]

\* _get_window_scores: the scores of the samples at or after the window's
\* start, in history order.
_get_window_scores(h, current_time, window_delta) ==
    LET window_start == current_time - window_delta
        inside == SelectSeq(h, LAMBDA e : e.ts >= window_start)
    IN  [i \in 1..Len(inside) |-> inside[i].score]

_calculate_improvement_for_window_step(h, current_time, window_delta) ==
    LET window_scores == _get_window_scores(h, current_time, window_delta)
    IN  IF window_scores = << >> \/ Len(window_scores) < 2
        THEN None
        ELSE Some(window_scores[Len(window_scores)]
                  - window_scores[Len(window_scores) - 1])

\* _calculate_improvement_for_window
_calculate_improvement_for_window(h, current_time, window_delta) ==
    LET window_scores == _get_window_scores(h, current_time, window_delta)
    IN  IF window_scores = << >> \/ Len(window_scores) < 2
        THEN None
        ELSE Some(window_scores[Len(window_scores)] - window_scores[1])

\* calculate_improvements: a dict keeps insertion order, so the mapping is the
\* sequence of its (window, value) entries.
calculate_improvements(h, current_time) ==
    [i \in 1..Len(TIME_WINDOWS) |->
        [window |-> TIME_WINDOWS[i].name,
         value  |-> _calculate_improvement_for_window(
                        h, current_time, TIME_WINDOWS[i].delta)]]

_trim_history_once(h, current_time) ==
    LET cutoff == current_time - TIME_WINDOWS[Len(TIME_WINDOWS)].delta
    IN  IF h # << >> /\ h[1].ts < cutoff THEN Tail(h) ELSE h

RECURSIVE _trim_history_first_window(_, _)
_trim_history_first_window(h, current_time) ==
    LET cutoff == current_time - TIME_WINDOWS[1].delta
    IN  IF h # << >> /\ h[1].ts < cutoff
        THEN _trim_history_first_window(Tail(h), current_time)
        ELSE h

RECURSIVE _trim_history_inclusive(_, _)
_trim_history_inclusive(h, current_time) ==
    LET cutoff == current_time - TIME_WINDOWS[Len(TIME_WINDOWS)].delta
    IN  IF h # << >> /\ h[1].ts <= cutoff
        THEN _trim_history_inclusive(Tail(h), current_time)
        ELSE h

\* _trim_history, with current_time the clock value it reads.
RECURSIVE _trim_history(_, _)
_trim_history(h, current_time) ==
    LET cutoff == current_time - TIME_WINDOWS[Len(TIME_WINDOWS)].delta
    IN  IF h # << >> /\ h[1].ts < cutoff
        THEN _trim_history(Tail(h), current_time)
        ELSE h

-----------------------------------------------------------------------------
(* The table formatter *)

DigitChar(d) == CHOOSE c \in Digits : DigitValue(c) = d

\* The decimal digits of a natural number.
RECURSIVE IntText(_)
IntText(n) ==
    IF n < 10 THEN << DigitChar(n) >>
    ELSE IntText(n \div 10) \o << DigitChar(n % 10) >>

\* f"{x:.2f}" of a number of hundredths: a "-" below zero, the integer part,
\* ".", two fraction digits.
Fixed2(x) ==
    LET a == IF x < 0 THEN 0 - x ELSE x
    IN  (IF x < 0 THEN << "-" >> ELSE << >>)
        \o IntText(a \div 100)
        \o << ".", DigitChar((a % 100) \div 10), DigitChar(a % 10) >>

\* f"{x:+.2f}": as Fixed2, with a "+" from zero upwards.
SignedFixed2(x) == (IF x < 0 THEN << >> ELSE << "+" >>) \o Fixed2(x)

\* add_score_row: the row table.add_row appends.
add_score_row(score_) ==
    LET score_style == IF score_ >= 900 THEN "green"
                       ELSE IF score_ >= 700 THEN "yellow" ELSE "red"
    IN  << [metric |-> << "Current Score" >>,
            value  |-> Fixed2(score_) \o << "/", "1", "0" >>,
            style  |-> score_style] >>

\* One step of add_improvement_rows' loop: a row for a window whose
\* improvement is not None, nothing for one whose improvement is None.
add_improvement_row(entry) ==
    IF entry.value # None
    THEN << [metric |-> << "Improvement", entry.window >>,
             value  |-> SignedFixed2(entry.value[1]),
             style  |-> IF entry.value[1] > 0 THEN "green" ELSE "red"] >>
    ELSE << >>

\* add_improvement_rows: the rows of the mapping's entries, in its order.
RECURSIVE add_improvement_rows(_)
add_improvement_rows(improvements_) ==
    IF improvements_ = << >> THEN << >>
    ELSE add_improvement_row(Head(improvements_))
         \o add_improvement_rows(Tail(improvements_))

\* create_lint_table: title, the two columns, the score row and the
\* improvement rows.
create_lint_table(score_, improvements_) ==
    [title   |-> "Lint Quality Monitor",
     columns |-> << "Metric", "Value" >>,
     rows    |-> add_score_row(score_) \o add_improvement_rows(improvements_)]

-----------------------------------------------------------------------------
(* The poll loop *)

\* The time the blocking provider call can take: none, four minutes, sixteen
\* hours.
Elapse == {0, 4 * SecondsPerMinute, 16 * SecondsPerHour}

\* The time that can pass between two statements of _process_iteration: none,
\* or sixteen hours, or a second more (a suspended process, a stepped clock).
Pause == {0, 16 * SecondsPerHour, 16 * SecondsPerHour + 1}

\* The places of run() inside its try block.
InTry == {"check", "poll", "append", "trim", "calc", "log", "display", "sleep"}

\* The places of _process_iteration after a score was produced.
Dispatching == {"append", "trim", "calc", "log", "display"}

LoopConditionAfterFirst(r, i, cap) ==
    (r \/ i = 0) /\ (cap = Infinity \/ i < cap)

LoopConditionInclusive(r, i, cap) == r /\ (cap = Infinity \/ i <= cap)

\* run()'s loop condition: self.running and iteration < max_iterations.
LoopCondition(r, i, cap) == r /\ (cap = Infinity \/ i < cap)

AfterInterruptResume == "check"

\* The place a KeyboardInterrupt caught by run()'s except clause leads to: the
\* clause is outside the loop, so run() returns.
AfterInterrupt == "returned"

ExceptKeyboardInterruptSilent(msgs) == msgs

\* The except clause's body: one "Monitoring stopped." is printed.
ExceptKeyboardInterrupt(msgs) == msgs + 1

Init ==
    /\ history = << >>
    /\ running = TRUE
    /\ max_iterations \in (0..MaxIterations) \cup {Infinity}
    /\ extract_arg = None
    /\ peer = NoPeer
    /\ log_file = << >>
    /\ iteration = 0
    /\ pc = "idle"
    /\ now = 0
    /\ score = None
    /\ timestamp = None
    /\ improvements = << >>
    /\ logCalls = << >>
    /\ displayCalls = << >>
    /\ stopMsgs = 0
    /\ providerCalls = 0
    /\ lastOutcome = "none"
    /\ appended = 0
    /\ sleeps = 0
    /\ interruptedAt = "none"
    /\ propagated = "none"

\* A caller clears the flag before run(), as the tests do.
SetRunningFalse ==
    /\ pc = "idle"
    /\ running
    /\ running' = FALSE
    /\ UNCHANGED <<history, max_iterations, extract_arg, peer, log_file,
                   iteration, pc, now, score, timestamp, improvements,
                   logCalls, displayCalls, stopMsgs, providerCalls,
                   lastOutcome, appended, sleeps, interruptedAt, propagated>>

\* run() is called and prints its start panel.
Run ==
    /\ pc = "idle"
    /\ pc' = "start"
    /\ UNCHANGED <<history, running, max_iterations, extract_arg, peer,
                   log_file, iteration, now, score, timestamp, improvements,
                   logCalls, displayCalls, stopMsgs, providerCalls,
                   lastOutcome, appended, sleeps, interruptedAt, propagated>>

\* iteration = 0 and the try block is entered.
EnterLoop ==
    /\ pc = "start"
    /\ iteration' = 0
    /\ pc' = "check"
    /\ UNCHANGED <<history, running, max_iterations, extract_arg, peer,
                   log_file, now, score, timestamp, improvements, logCalls,
                   displayCalls, stopMsgs, providerCalls, lastOutcome,
                   appended, sleeps, interruptedAt, propagated>>

\* The while condition is evaluated.
Check ==
    /\ pc = "check"
    /\ pc' = IF LoopCondition(running, iteration, max_iterations)
             THEN "poll" ELSE "returned"
    /\ UNCHANGED <<history, running, max_iterations, extract_arg, peer,
                   log_file, iteration, now, score, timestamp, improvements,
                   logCalls, displayCalls, stopMsgs, providerCalls,
                   lastOutcome, appended, sleeps, interruptedAt, propagated>>

\* _process_iteration calls get_pylint_score and branches on its result; the
\* provider ends in one of the given outcomes.
PollFrom(outcomes) ==
    /\ pc = "poll"
    /\ providerCalls < MaxPolls
    /\ \E outcome \in outcomes, e \in Elapse :
          LET result == get_pylint_score(outcome)
          IN  /\ now + e <= MaxClock
              /\ now' = now + e
              /\ providerCalls' = providerCalls + 1
              /\ lastOutcome' = IF outcome.failed THEN "failed" ELSE "ok"
              /\ IF result.raised # "none"
                 THEN /\ propagated' = result.raised
                      /\ pc' = "raised"
                      /\ score' = None
                 ELSE /\ propagated' = propagated
                      /\ score' = result.value
                      /\ pc' = IF result.value # None THEN "append" ELSE "sleep"
    /\ UNCHANGED <<history, running, max_iterations, extract_arg, peer,
                   log_file, iteration, timestamp, improvements, logCalls,
                   displayCalls, stopMsgs, appended, sleeps, interruptedAt>>

Poll == PollFrom(ProviderOutcomes)

AppendSampleLeft ==
    /\ pc = "append"
    /\ timestamp' = Some(now)
    /\ history' = << [ts |-> now, score |-> score[1]] >> \o history
    /\ appended' = appended + 1
    /\ pc' = "trim"
    /\ UNCHANGED <<running, max_iterations, extract_arg, peer, log_file,
                   iteration, now, score, improvements, logCalls,
                   displayCalls, stopMsgs, providerCalls, lastOutcome, sleeps,
                   interruptedAt, propagated>>

AppendSampleNoTrim ==
    /\ pc = "append"
    /\ timestamp' = Some(now)
    /\ history' = Append(history, [ts |-> now, score |-> score[1]])
    /\ appended' = appended + 1
    /\ pc' = "calc"
    /\ UNCHANGED <<running, max_iterations, extract_arg, peer, log_file,
                   iteration, now, score, improvements, logCalls,
                   displayCalls, stopMsgs, providerCalls, lastOutcome, sleeps,
                   interruptedAt, propagated>>

\* timestamp = datetime.now(); self.history.append((timestamp, score))
AppendSample ==
    /\ pc = "append"
    /\ timestamp' = Some(now)
    /\ history' = Append(history, [ts |-> now, score |-> score[1]])
    /\ appended' = appended + 1
    /\ pc' = "trim"
    /\ UNCHANGED <<running, max_iterations, extract_arg, peer, log_file,
                   iteration, now, score, improvements, logCalls,
                   displayCalls, stopMsgs, providerCalls, lastOutcome, sleeps,
                   interruptedAt, propagated>>

\* self._trim_history()
Trim ==
    /\ pc = "trim"
    /\ \E e \in Pause :
          /\ now + e <= MaxClock
          /\ now' = now + e
          /\ history' = _trim_history(history, now + e)
    /\ pc' = "calc"
    /\ UNCHANGED <<running, max_iterations, extract_arg, peer, log_file,
                   iteration, score, timestamp, improvements, logCalls,
                   displayCalls, stopMsgs, providerCalls, lastOutcome,
                   appended, sleeps, interruptedAt, propagated>>

CalcTrimming ==
    /\ pc = "calc"
    /\ \E e \in Pause :
          /\ now + e <= MaxClock
          /\ now' = now + e
          /\ history' = _trim_history(history, now + e)
          /\ improvements' = calculate_improvements(history', now + e)
    /\ pc' = "log"
    /\ UNCHANGED <<running, max_iterations, extract_arg, peer, log_file,
                   iteration, score, timestamp, logCalls, displayCalls,
                   stopMsgs, providerCalls, lastOutcome, appended, sleeps,
                   interruptedAt, propagated>>

\* improvements = self.calculate_improvements()
Calc ==
    /\ pc = "calc"
    /\ \E e \in Pause :
          /\ now + e <= MaxClock
          /\ now' = now + e
          /\ improvements' = calculate_improvements(history, now + e)
    /\ pc' = "log"
    /\ UNCHANGED <<history, running, max_iterations, extract_arg, peer,
                   log_file, iteration, score, timestamp, logCalls,
                   displayCalls, stopMsgs, providerCalls, lastOutcome,
                   appended, sleeps, interruptedAt, propagated>>

LogSkipped ==
    /\ pc = "log"
    /\ pc' = "display"
    /\ UNCHANGED <<history, running, max_iterations, extract_arg, peer,
                   log_file, iteration, now, score, timestamp, improvements,
                   logCalls, displayCalls, stopMsgs, providerCalls,
                   lastOutcome, appended, sleeps, interruptedAt, propagated>>

\* The line _log_score appends to the file LOG_FILE names; `by` tells which
\* monitor wrote it.
LogLine(by, ts, score_) ==
    [file |-> LOG_FILE, by |-> by, ts |-> ts,
     current |-> Fixed2(score_) \o << "/", "1", "0" >>]

\* _log_and_display, first half: self._log_score(score, timestamp)
Log ==
    /\ pc = "log"
    /\ logCalls' = Append(logCalls, [ts |-> timestamp[1], score |-> score[1]])
    /\ log_file' = Append(log_file, LogLine("self", timestamp[1], score[1]))
    /\ pc' = "display"
    /\ UNCHANGED <<history, running, max_iterations, extract_arg, peer,
                   iteration, now, score, timestamp, improvements,
                   displayCalls, stopMsgs, providerCalls, lastOutcome,
                   appended, sleeps, interruptedAt, propagated>>

\* table = self._create_lint_table(score, improvements), and the second half
\* of _log_and_display: self._display_table(table, timestamp)
Display ==
    /\ pc = "display"
    /\ displayCalls' = Append(displayCalls,
                              [score |-> score[1],
                               improvements |-> improvements,
                               table |-> create_lint_table(score[1], improvements),
                               ts |-> timestamp[1]])
    /\ pc' = "sleep"
    /\ UNCHANGED <<history, running, max_iterations, extract_arg, peer,
                   log_file, iteration, now, score, timestamp, improvements,
                   logCalls, stopMsgs, providerCalls, lastOutcome, appended,
                   sleeps, interruptedAt, propagated>>

SleepNoWait ==
    /\ pc = "sleep"
    /\ iteration' = iteration + 1
    /\ sleeps' = sleeps + 1
    /\ pc' = "check"
    /\ UNCHANGED <<history, running, max_iterations, extract_arg, peer,
                   log_file, now, score, timestamp, improvements, logCalls,
                   displayCalls, stopMsgs, providerCalls, lastOutcome,
                   appended, interruptedAt, propagated>>

\* iteration += 1; time.sleep(INTERVAL)
Sleep ==
    /\ pc = "sleep"
    /\ iteration' = iteration + 1
    /\ now + INTERVAL <= MaxClock
    /\ now' = now + INTERVAL
    /\ sleeps' = sleeps + 1
    /\ pc' = "check"
    /\ UNCHANGED <<history, running, max_iterations, extract_arg, peer,
                   log_file, score, timestamp, improvements, logCalls,
                   displayCalls, stopMsgs, providerCalls, lastOutcome,
                   appended, interruptedAt, propagated>>

\* KeyboardInterrupt inside the try block: the except clause prints the stop
\* message and run() returns.
InterruptInTry ==
    /\ pc \in InTry
    /\ interruptedAt = "none"
    /\ interruptedAt' = pc
    /\ stopMsgs' = ExceptKeyboardInterrupt(stopMsgs)
    /\ pc' = AfterInterrupt
    /\ UNCHANGED <<history, running, max_iterations, extract_arg, peer,
                   log_file, iteration, now, score, timestamp, improvements,
                   logCalls, displayCalls, providerCalls, lastOutcome,
                   appended, sleeps, propagated>>

\* KeyboardInterrupt while the start panel is printed, before the try block:
\* it leaves run().
InterruptBeforeTry ==
    /\ pc = "start"
    /\ interruptedAt = "none"
    /\ interruptedAt' = pc
    /\ propagated' = "KeyboardInterrupt"
    /\ pc' = "raised"
    /\ UNCHANGED <<history, running, max_iterations, extract_arg, peer,
                   log_file, iteration, now, score, timestamp, improvements,
                   logCalls, displayCalls, stopMsgs, providerCalls,
                   lastOutcome, appended, sleeps>>

\* The steps of the program itself.
Step ==
    \/ EnterLoop
    \/ Check
    \/ Poll
    \/ AppendSample
    \/ Trim
    \/ Calc
    \/ Log
    \/ Display
    \/ Sleep

Next ==
    \/ SetRunningFalse
    \/ Run
    \/ Step
    \/ InterruptInTry
    \/ InterruptBeforeTry

Spec == Init /\ [][Next]_vars

\* The program under the scheduling of a sequential process: a step that can
\* be taken is taken (the provider call returns or fails, the sleep ends).
LiveSpec == Spec /\ WF_vars(Step)

-----------------------------------------------------------------------------
(* A run against a provider that rates the code 7.00, 8.00 or 9.00 *)

ScenarioOutcomes == {[failed |-> FALSE, stdout |-> t] : t \in {T_700, T_800, T_900}}

ScenarioPoll == PollFrom(ScenarioOutcomes)

ScenarioNext ==
    \/ Run
    \/ EnterLoop
    \/ Check
    \/ ScenarioPoll
    \/ AppendSample
    \/ Trim
    \/ Calc
    \/ Log
    \/ Display
    \/ Sleep

ScenarioSpec == Init /\ [][ScenarioNext]_vars

-----------------------------------------------------------------------------
(* A run against a provider whose ratings leave the range [0, 10] *)

RangeOutcomes ==
    {[failed |-> FALSE, stdout |-> t] : t \in {T_Negative, T_1100}}

RangePoll == PollFrom(RangeOutcomes)

RangeNext ==
    \/ Run
    \/ EnterLoop
    \/ Check
    \/ RangePoll
    \/ AppendSample
    \/ Trim
    \/ Calc
    \/ Log
    \/ Display
    \/ Sleep

RangeSpec == Init /\ [][RangeNext]_vars

-----------------------------------------------------------------------------
(* Two monitors in one process *)

\* The number of cycles the second monitor is followed for.
MaxPeerCycles == 2

PeerScores == {800}

\* LintMonitor(config) is called a second time: __init__ gives the new
\* monitor its own deque, running flag and configuration.
PeerConstruct ==
    /\ ~peer.constructed
    /\ \E cap \in {1, Infinity} :
          peer' = [constructed |-> TRUE, history |-> << >>, running |-> TRUE,
                   max_iterations |-> cap, cycles |-> 0]
    /\ UNCHANGED <<history, running, max_iterations, extract_arg, log_file,
                   iteration, pc, now, score, timestamp, improvements,
                   logCalls, displayCalls, stopMsgs, providerCalls,
                   lastOutcome, appended, sleeps, interruptedAt, propagated>>

\* The second monitor's _process_iteration with a score: append, trim, and
\* _log_score, which opens the file LOG_FILE names.
PeerProcessIteration ==
    /\ peer.constructed
    /\ peer.cycles < MaxPeerCycles
    /\ \E s \in PeerScores :
          /\ peer' = [peer EXCEPT
                         !.history = _trim_history(
                             Append(@, [ts |-> now, score |-> s]), now),
                         !.cycles = @ + 1]
          /\ log_file' = Append(log_file, LogLine("peer", now, s))
    /\ UNCHANGED <<history, running, max_iterations, extract_arg,
                   iteration, pc, now, score, timestamp, improvements,
                   logCalls, displayCalls, stopMsgs, providerCalls,
                   lastOutcome, appended, sleeps, interruptedAt, propagated>>

PairOutcomes ==
    {[failed |-> FALSE, stdout |-> T_700], [failed |-> TRUE, stdout |-> << >>]}

PairPoll == PollFrom(PairOutcomes)

PairNext ==
    \/ Run
    \/ EnterLoop
    \/ Check
    \/ PairPoll
    \/ AppendSample
    \/ Trim
    \/ Calc
    \/ Log
    \/ Display
    \/ Sleep
    \/ PeerConstruct
    \/ PeerProcessIteration

\* The first monitor is built with a cap of two iterations; the second is
\* not built yet.
PairInit ==
    /\ history = << >>
    /\ running = TRUE
    /\ max_iterations = 2
    /\ extract_arg = None
    /\ peer = NoPeer
    /\ log_file = << >>
    /\ iteration = 0
    /\ pc = "idle"
    /\ now = 0
    /\ score = None
    /\ timestamp = None
    /\ improvements = << >>
    /\ logCalls = << >>
    /\ displayCalls = << >>
    /\ stopMsgs = 0
    /\ providerCalls = 0
    /\ lastOutcome = "none"
    /\ appended = 0
    /\ sleeps = 0
    /\ interruptedAt = "none"
    /\ propagated = "none"

PairSpec == PairInit /\ [][PairNext]_vars

-----------------------------------------------------------------------------
(* The score extractor on arbitrary texts *)

\* The longest text drawn for the place of the number.
MaxNumberLen == 4

\* What precedes the phrase: nothing, other words, or a first phrase that
\* lacks its trailing space.
ExtractPrefixes == {<< >>, << "x", " " >>, << MARK, "7", "/", " " >>}

\* The phrase with its trailing space, without it, or no phrase.
ExtractMarks == {<< MARK, " " >>, << MARK >>, << >>}

ExtractNumberChars == {"9", "5", ".", "-", " "}

\* The model's numbers are hundredths: no text is drawn in which a "." is
\* followed by three digits in a row.
InHundredths(t) ==
    \A k \in 1..(Len(t) - 3) :
       ~(t[k] = "." /\ AllDigits(SubSeq(t, k + 1, k + 3)))

ExtractNumbers ==
    {t \in UNION {[1..n -> ExtractNumberChars] : n \in 0..MaxNumberLen} :
        InHundredths(t)}

\* What follows the number: nothing, "/10", "/10" and a second rating, or
\* a second rating at once.
ExtractSuffixes ==
    {<< >>, << "/", "1", "0" >>,
     << "/", "1", "0", " ", MARK, " ", "7", "/", "1", "0" >>,
     << MARK, " ", "7", "/", "1", "0" >>}

ExtractInputs ==
    {None} \cup {Some(p \o m \o n \o x) :
                    p \in ExtractPrefixes, m \in ExtractMarks,
                    n \in ExtractNumbers, x \in ExtractSuffixes}

ExtractInit ==
    /\ extract_arg \in ExtractInputs
    /\ peer = NoPeer
    /\ log_file = << >>
    /\ history = << >>
    /\ running = TRUE
    /\ max_iterations = Infinity
    /\ iteration = 0
    /\ pc = "extract"
    /\ now = 0
    /\ score = None
    /\ timestamp = None
    /\ improvements = << >>
    /\ logCalls = << >>
    /\ displayCalls = << >>
    /\ stopMsgs = 0
    /\ providerCalls = 0
    /\ lastOutcome = "none"
    /\ appended = 0
    /\ sleeps = 0
    /\ interruptedAt = "none"
    /\ propagated = "none"

\* A direct call of _extract_score(extract_arg), as the unit tests make it.
Extract ==
    /\ pc = "extract"
    /\ LET result == _extract_score(extract_arg)
       IN  /\ propagated' = result.raised
           /\ score' = result.value
           /\ pc' = IF result.raised = "none" THEN "extracted" ELSE "raised"
    /\ UNCHANGED <<history, running, max_iterations, extract_arg, peer,
                   log_file, iteration, now, timestamp, improvements,
                   logCalls, displayCalls, stopMsgs, providerCalls,
                   lastOutcome, appended, sleeps, interruptedAt>>

ExtractSpec == ExtractInit /\ [][Extract]_vars

-----------------------------------------------------------------------------
(* The improvement calculation on arbitrary histories *)

\* The longest history drawn.
MaxLen == 3

\* The clock value the histories are drawn around.
CalcNow == 1000

\* Ages of the drawn samples: at and just past the 5m and 16h cutoffs.
CalcAges == {0, 60, 300, 301, 16 * SecondsPerHour, 16 * SecondsPerHour + 1}

CalcScores == {700, 800, 950}

CalcSamples == {[ts |-> CalcNow - a, score |-> s] : a \in CalcAges, s \in CalcScores}

CalcHistories == UNION {[1..n -> CalcSamples] : n \in 0..MaxLen}

CalcInit ==
    /\ history \in CalcHistories
    /\ running = TRUE
    /\ max_iterations = Infinity
    /\ extract_arg = None
    /\ peer = NoPeer
    /\ log_file = << >>
    /\ iteration = 0
    /\ pc = "calc"
    /\ now = CalcNow
    /\ score = None
    /\ timestamp = None
    /\ improvements = << >>
    /\ logCalls = << >>
    /\ displayCalls = << >>
    /\ stopMsgs = 0
    /\ providerCalls = 0
    /\ lastOutcome = "none"
    /\ appended = 0
    /\ sleeps = 0
    /\ interruptedAt = "none"
    /\ propagated = "none"

CalcSpec == CalcInit /\ [][Calc]_vars

-----------------------------------------------------------------------------
(* Trim and the calculation on histories set by a caller *)

\* The longest history set.
MaxStoreLen == 4

\* Samples on, just past and well inside the 16h cutoff.
StoreSamples ==
    {[ts |-> CalcNow - a, score |-> s] :
        a \in {0, 16 * SecondsPerHour, 16 * SecondsPerHour + 1},
        s \in {700, 800}}

\* The samples of the unit tests: 6.0 two hours and one hour ago, 7.0 fifteen
\* minutes ago, 8.0 five minutes ago, 9.0 now.
TestSamples ==
    {[ts |-> CalcNow - 2 * SecondsPerHour, score |-> 600],
     [ts |-> CalcNow - 1 * SecondsPerHour, score |-> 600],
     [ts |-> CalcNow - 15 * SecondsPerMinute, score |-> 700],
     [ts |-> CalcNow - 5 * SecondsPerMinute, score |-> 800],
     [ts |-> CalcNow, score |-> 900]}

StoreHistories ==
    UNION {[1..n -> StoreSamples] \cup [1..n -> TestSamples] : n \in 0..MaxStoreLen}

\* monitor.history = deque(history), then _trim_history() and
\* calculate_improvements() are called.
StoreInit ==
    /\ history \in StoreHistories
    /\ running = TRUE
    /\ max_iterations = Infinity
    /\ extract_arg = None
    /\ peer = NoPeer
    /\ log_file = << >>
    /\ iteration = 0
    /\ pc = "trim"
    /\ now = CalcNow
    /\ score = None
    /\ timestamp = None
    /\ improvements = << >>
    /\ logCalls = << >>
    /\ displayCalls = << >>
    /\ stopMsgs = 0
    /\ providerCalls = 0
    /\ lastOutcome = "none"
    /\ appended = 0
    /\ sleeps = 0
    /\ interruptedAt = "none"
    /\ propagated = "none"

StoreNext == Trim \/ Calc

StoreSpec == StoreInit /\ [][StoreNext]_vars

-----------------------------------------------------------------------------
(* The table of arbitrary scores and improvement mappings *)

TableScores == {650, 850, 950}

TableValues == {None, Some(-150), Some(0), Some(100)}

\* The mappings over the configured windows, and the three-window mapping of
\* test_create_lint_table.
TableMappings ==
    {[i \in 1..Len(TIME_WINDOWS) |-> [window |-> TIME_WINDOWS[i].name, value |-> v[i]]] :
        v \in [1..Len(TIME_WINDOWS) -> TableValues]}
    \cup {<< [window |-> "5m", value |-> Some(100)],
              [window |-> "15m", value |-> None],
              [window |-> "1h", value |-> Some(200)] >>}

TableInit ==
    /\ score \in {Some(x) : x \in TableScores}
    /\ improvements \in TableMappings
    /\ timestamp = Some(CalcNow)
    /\ history = << >>
    /\ running = TRUE
    /\ max_iterations = Infinity
    /\ extract_arg = None
    /\ peer = NoPeer
    /\ log_file = << >>
    /\ iteration = 0
    /\ pc = "display"
    /\ now = CalcNow
    /\ logCalls = << >>
    /\ displayCalls = << >>
    /\ stopMsgs = 0
    /\ providerCalls = 0
    /\ lastOutcome = "none"
    /\ appended = 0
    /\ sleeps = 0
    /\ interruptedAt = "none"
    /\ propagated = "none"

TableSpec == TableInit /\ [][Display]_vars

-----------------------------------------------------------------------------
(* Claims *)

\* The duration of the longest configured window, the retention horizon.
Horizon == TIME_WINDOWS[Len(TIME_WINDOWS)].delta

\* The steps of one poll cycle, from the provider call to the end of the sleep.
InCycle == {"poll", "sleep"} \cup Dispatching

\* C1: in a poll cycle in which the provider fails (whatever it printed) or
\* no score is extracted, no step changes History and no step calls the
\* logging sink or the display sink.
C1_NoScoreCycleLeavesNoTrace ==
    [][ (pc \in InCycle /\ (lastOutcome' = "failed" \/ score' = None))
        => UNCHANGED <<history, logCalls, displayCalls>> ]_vars

\* C1 witness: a cycle whose provider call failed has ended, and the samples
\* of the cycles before are still there.
C1_Witness ==
    /\ pc = "check"
    /\ lastOutcome = "failed"
    /\ providerCalls >= 2
    /\ history # << >>
    /\ Len(logCalls) = Len(history)

\* The positions of History whose sample is at or after now - d.
InWindow(h, t, d) == {k \in 1..Len(h) : h[k].ts >= t - d}

Max(S) == CHOOSE x \in S : \A y \in S : x >= y

\* last(S) - first(S) over the window's samples, absent below two samples.
ExpectedImprovement(h, t, d) ==
    LET S == InWindow(h, t, d)
    IN  IF Cardinality(S) < 2 THEN None
        ELSE Some(h[Max(S)].score - h[Min(S)].score)

C3_RetainedWithinHorizonAlways ==
    \A k \in 1..Len(history) : history[k].ts >= now - Horizon

\* C3 amended: right after a trim, at the clock value the trim read, every
\* retained sample has timestamp >= now - 16h.
C3_RetainedWithinHorizonAfterTrim ==
    pc = "calc" => \A k \in 1..Len(history) : history[k].ts >= now - Horizon

\* C3 witness: a trim has evicted a sample and kept one exactly on the cutoff.
C3_Witness ==
    /\ pc = "calc"
    /\ appended > Len(history)
    /\ history # << >>
    /\ history[1].ts = now - Horizon

\* The states between two cycles and after the loop.
BetweenCycles == {"check", "poll", "sleep", "returned"}

\* C4: whenever the loop has stopped or is between cycles, every sample ever
\* appended was also logged and displayed.
C4_CycleAllOrNothing ==
    pc \in BetweenCycles =>
        /\ Len(logCalls) = appended
        /\ Len(displayCalls) = appended

\* C5: a failed provider invocation never leaves run() as an exception; its
\* cycle has no score and goes on to the sleep, the sleep leads back to the
\* loop condition, and with the cap not reached and the flag set the loop
\* polls again (a KeyboardInterrupt aside).
C5_ProviderFailureIsSkipped ==
    /\ [](propagated # "CalledProcessError")
    /\ [][ (pc = "poll" /\ pc' # AfterInterrupt /\ lastOutcome' = "failed")
           => (pc' = "sleep" /\ score' = None) ]_vars
    /\ [][ (pc = "sleep" /\ lastOutcome = "failed" /\ interruptedAt' = "none")
           => (pc' = "check" /\ sleeps' = sleeps + 1) ]_vars
    /\ [][ (/\ pc = "check"
            /\ lastOutcome = "failed"
            /\ interruptedAt' = "none"
            /\ running
            /\ (max_iterations = Infinity \/ iteration < max_iterations))
           => pc' = "poll" ]_vars

\* C5 witness: the cycle after a failed invocation is about to poll.
C5_Witness ==
    /\ pc = "poll"
    /\ lastOutcome = "failed"
    /\ providerCalls >= 1

\* The sleep step and the dispatch step (_log_and_display).
SleepOrDispatch == {"sleep", "log", "display"}

\* C6: a KeyboardInterrupt during the sleep or the dispatch ends run()
\* normally with one stop message, and after it there is no provider
\* invocation, no change of History and no sink call.
C6_InterruptStopsGracefully ==
    /\ [](interruptedAt \in SleepOrDispatch =>
            (pc = "returned" /\ propagated = "none" /\ stopMsgs = 1))
    /\ [][ (interruptedAt \in SleepOrDispatch)
           => UNCHANGED <<providerCalls, history, logCalls, displayCalls>> ]_vars

\* C6 witness: the interrupt arrived between the log call and the display
\* call.
C6_Witness ==
    /\ interruptedAt = "display"
    /\ pc = "returned"
    /\ Len(logCalls) = Len(displayCalls) + 1

\* C7: once an interrupt has ended the loop, the running flag is false.
C7_RunningFalseAfterInterrupt ==
    (pc = "returned" /\ interruptedAt \in InTry) => running = FALSE

\* C8: with a finite cap N, no interrupt and no stop request, run() returns
\* after exactly N provider invocations, and at most N samples were ever
\* appended; a started run with a finite cap eventually ends.
C8_StopsAfterCap ==
    /\ []( (/\ pc = "returned"
            /\ interruptedAt = "none"
            /\ running
            /\ max_iterations # Infinity)
           => (providerCalls = max_iterations /\ appended <= max_iterations) )
    /\ []( (max_iterations # Infinity /\ running)
           => (providerCalls <= max_iterations /\ appended <= providerCalls) )
    /\ ( (pc = "start" /\ max_iterations # Infinity)
         ~> (pc \in {"returned", "raised"}) )

\* C8 witness: a run with cap 3 has returned after 3 invocations of which
\* one produced no score.
C8_Witness ==
    /\ pc = "returned"
    /\ interruptedAt = "none"
    /\ running
    /\ max_iterations = 3
    /\ providerCalls = 3
    /\ appended = 2

\* C9 as stated: whenever run() has returned, exactly one stop message was
\* printed.
C9_StopMessageOnEveryExit == pc = "returned" => stopMsgs = 1

\* C9 amended: run() prints exactly one stop message when a KeyboardInterrupt
\* ended the loop, and none when the loop ended by its condition (the cap
\* reached, the flag cleared).
C9_StopMessageOnlyOnInterrupt ==
    /\ pc = "returned" =>
          stopMsgs = (IF interruptedAt \in InTry THEN 1 ELSE 0)
    /\ pc # "returned" => stopMsgs = 0

\* C9 witness: the loop ended by its cap after a poll, without a message.
C9_Witness ==
    /\ pc = "returned"
    /\ interruptedAt = "none"
    /\ running
    /\ providerCalls >= 1
    /\ stopMsgs = 0

\* C10: in a cycle with a score the log call comes first and carries the
\* cycle's (timestamp, score), the display call follows, each once; without
\* an interrupt the log calls, the display calls and the samples ever
\* appended are equally many between cycles.
C10_LogThenDisplayOncePerSample ==
    /\ Len(displayCalls) <= Len(logCalls)
    /\ Len(logCalls) <= appended
    /\ pc \in {"trim", "calc", "log"} =>
          (Len(logCalls) = appended - 1 /\ Len(displayCalls) = appended - 1)
    /\ pc = "display" =>
          /\ Len(logCalls) = appended
          /\ Len(displayCalls) = appended - 1
          /\ logCalls[Len(logCalls)] = [ts |-> timestamp[1], score |-> score[1]]
    /\ (pc = "sleep" /\ score # None) =>
          /\ logCalls[Len(logCalls)] = [ts |-> timestamp[1], score |-> score[1]]
          /\ displayCalls[Len(displayCalls)].ts = timestamp[1]
          /\ displayCalls[Len(displayCalls)].score = score[1]
    /\ (interruptedAt = "none" /\ pc \in BetweenCycles) =>
          (Len(logCalls) = appended /\ Len(displayCalls) = appended)

\* C10 witness: a run of three cycles, two with a score, has returned.
C10_Witness ==
    /\ pc = "returned"
    /\ interruptedAt = "none"
    /\ providerCalls = 3
    /\ appended = 2
    /\ Len(logCalls) = 2
    /\ Len(displayCalls) = 2


\* Every append has been followed by its trim: run() is not between the two,
\* and was not interrupted between them.
TrimmedSinceAppend == pc # "trim" /\ interruptedAt # "trim"

\* The time between the oldest and the newest retained sample.
Span(h) == IF h = << >> THEN 0 ELSE h[Len(h)].ts - h[1].ts

\* C11: under run() with a non-decreasing clock, once the trim that follows an
\* append has run, consecutive samples are at least one poll interval apart
\* and the retained samples span at most the retention horizon, so History
\* holds at most floor(horizon / interval) + 1 = 961 samples.
C11_HistoryLengthBounded ==
    TrimmedSinceAppend =>
        /\ \A i \in 1..(Len(history) - 1) :
               history[i + 1].ts - history[i].ts >= INTERVAL
        /\ Span(history) <= Horizon
        /\ (Len(history) - 1) * INTERVAL <= Span(history)
        /\ Len(history) <= Horizon \div INTERVAL + 1
        /\ Horizon \div INTERVAL + 1 = 961

\* Three samples were appended, the oldest was evicted by a trim and two are
\* retained.
C11_Witness ==
    /\ pc = "calc"
    /\ appended = 3
    /\ Len(history) = 2
    /\ Span(history) = INTERVAL


\* The history of the run whose polls gave 7.00, 8.00 and 9.00 at t = 0, 5m
\* and 10m.
ThreeCycleHistory ==
    << [ts |-> 0, score |-> 700],
       [ts |-> 5 * SecondsPerMinute, score |-> 800],
       [ts |-> 10 * SecondsPerMinute, score |-> 900] >>

\* The third cycle of that run has computed its improvements at t = 10m.
ThreeCycleRun ==
    /\ pc = "log"
    /\ iteration = 2
    /\ appended = 3
    /\ history = ThreeCycleHistory
    /\ now = 10 * SecondsPerMinute

\* C12: after the three cycles that appended 7.00, 8.00 and 9.00 at t = 0, 5m
\* and 10m, the improvements computed at t = 10m are 1.00 for the 5m window
\* and 2.00 for the 15m, 1h, 4h and 16h windows.
C12_ThreeCycleImprovements ==
    ThreeCycleRun =>
        improvements = << [window |-> "5m",  value |-> Some(100)],
                          [window |-> "15m", value |-> Some(200)],
                          [window |-> "1h",  value |-> Some(200)],
                          [window |-> "4h",  value |-> Some(200)],
                          [window |-> "16h", value |-> Some(200)] >>

C12_Witness == ThreeCycleRun /\ improvements[1].value = Some(100)


\* C13: a call of the improvement calculation changes nothing but its result
\* (History and every other field of the monitor stay as they were), and the
\* result is determined by History and the clock value the call read, so that
\* calls on the same History at the same clock value return the same mapping.
C13_CalculationIsPure ==
    [][ (pc = "calc" /\ pc' = "log")
        => /\ UNCHANGED <<history, running, max_iterations, extract_arg, peer, log_file, iteration, score,
                          timestamp, logCalls, displayCalls, stopMsgs,
                          providerCalls, lastOutcome, appended, sleeps,
                          interruptedAt, propagated>>
           /\ \A i \in 1..Len(TIME_WINDOWS) :
                 improvements'[i].value =
                    ExpectedImprovement(history, now', TIME_WINDOWS[i].delta)
      ]_vars

\* A calculation ran at a clock value at which History holds a sample older
\* than the retention horizon, and found two samples inside the 16h window.
C13_Witness ==
    /\ pc = "log"
    /\ \E k \in 1..Len(history) : history[k].ts < now - Horizon
    /\ improvements[5].value # None


\* The first place in text at which the phrase and its trailing space stand,
\* 0 when there is none.
FirstMarker(text) ==
    LET P == {i \in 1..(Len(text) - 1) : text[i] = MARK /\ text[i + 1] = " "}
    IN  IF P = {} THEN 0 ELSE Min(P)

\* The first "/" of text after place i, 0 when there is none.
FirstSlashAfter(text, i) ==
    LET P == {j \in (i + 1)..Len(text) : text[j] = "/"}
    IN  IF P = {} THEN 0 ELSE Min(P)

\* The text between the first phrase (with its space) and the first "/" that
\* follows it.
RatedText(text) ==
    SubSeq(text, FirstMarker(text) + 2,
           FirstSlashAfter(text, FirstMarker(text) + 1) - 1)

\* A decimal number: an optional "-", then digits with at most one "." among
\* them and a digit next to it.
WellFormedDecimal(d) ==
    LET u == IF d # << >> /\ d[1] = "-" THEN Tail(d) ELSE d
        dots == {k \in 1..Len(u) : u[k] = "."}
    IN  /\ \A k \in 1..Len(u) : u[k] \in Digits \cup {"."}
        /\ Cardinality(dots) <= 1
        /\ \E k \in 1..Len(u) : u[k] \in Digits

RECURSIVE Power10(_)
Power10(n) == IF n <= 0 THEN 1 ELSE 10 * Power10(n - 1)

RECURSIVE SumOver(_, _, _)
SumOver(S, u, point) ==
    IF S = {} THEN 0
    ELSE LET k == Min(S)
         IN  DigitValue(u[k]) * Power10(point + 1 - k) + SumOver(S \ {k}, u, point)

\* The hundredths a well-formed decimal stands for: each digit weighs by its
\* distance from the decimal point.
DecimalHundredths(d) ==
    LET neg == d[1] = "-"
        u == IF neg THEN Tail(d) ELSE d
        dots == {k \in 1..Len(u) : u[k] = "."}
        point == IF dots = {} THEN Len(u) + 1 ELSE Min(dots)
        before == SumOver({k \in 1..(point - 1) : TRUE}, u, point)
        after == SumOver({k \in (point + 1)..Len(u) : TRUE}, u, point + 1)
        magnitude == before + after
    IN  IF neg THEN 0 - magnitude ELSE magnitude

\* The text holds the phrase with its space, then a well-formed decimal, then
\* a "/".
RatedAt(text) ==
    /\ FirstMarker(text) > 0
    /\ FirstSlashAfter(text, FirstMarker(text) + 1) > 0
    /\ WellFormedDecimal(RatedText(text))

\* C14: for a text in which the first "Your code has been rated at " is
\* followed by a well-formed decimal number and then "/", score extraction
\* returns exactly that number.
C14_ExtractsTheRatedNumber ==
    (pc # "extract" /\ extract_arg # None /\ RatedAt(extract_arg[1]))
        => /\ pc = "extracted"
           /\ score = Some(DecimalHundredths(RatedText(extract_arg[1])))

\* "x Your code has been rated at 9.5/10 Your code has been rated at 7/10"
\* gave 9.5, the number of the first rating.
C14_Witness ==
    /\ pc = "extracted"
    /\ extract_arg # None
    /\ RatedAt(extract_arg[1])
    /\ extract_arg[1][1] = "x"
    /\ Len(extract_arg[1]) > 12
    /\ score = Some(950)

\* The inputs C15 lists: no input, the empty text, a text without the phrase,
\* a text with the phrase but never with its trailing space, and a text with
\* one rating in which what follows the phrase, up to the "/" if there is
\* one, is not a number.
NotRated(arg) ==
    \/ arg = None
    \/ arg[1] = << >>
    \/ \A k \in 1..Len(arg[1]) : arg[1][k] # MARK
    \/ FirstMarker(arg[1]) = 0
    \/ /\ FirstMarker(arg[1]) > 0
       /\ LET rest == SubSeq(arg[1], FirstMarker(arg[1]) + 2, Len(arg[1]))
              slash == {j \in 1..Len(rest) : rest[j] = "/"}
              number == IF slash = {} THEN rest
                        ELSE SubSeq(rest, 1, Min(slash) - 1)
          IN  /\ FirstMarker(rest) = 0
              /\ ~WellFormedDecimal(strip(number))

\* C15: score extraction never raises, and it returns absence-of-score for
\* every input of NotRated.
C15_ExtractionNeverRaises ==
    pc # "extract" =>
        /\ propagated = "none"
        /\ pc = "extracted"
        /\ NotRated(extract_arg) => score = None

\* The phrase without its trailing space: [1] of the split raised IndexError
\* inside the call, and the call returned absence.
C15_Witness ==
    /\ pc = "extracted"
    /\ extract_arg = Some(<< MARK, "9", ".", "5", "/", "1", "0" >>)
    /\ score = None


\* The History of test_calculate_improvements, relative to the clock value
\* the calculation reads.
TestHistory ==
    << [ts |-> now - 1 * SecondsPerHour, score |-> 600],
       [ts |-> now - 15 * SecondsPerMinute, score |-> 700],
       [ts |-> now - 5 * SecondsPerMinute, score |-> 800],
       [ts |-> now, score |-> 900] >>

LastTable == displayCalls[Len(displayCalls)].table

\* C17 as stated: the table has 1 + |improvements| rows, the current-score row
\* and then one row per window in mapping order, a window without an
\* improvement being shown with the value "N/A".
C17_RowPerWindowWithNA ==
    displayCalls # << >> =>
        /\ Len(LastTable.rows) = 1 + Len(improvements)
        /\ LastTable.rows[1].metric = << "Current Score" >>
        /\ \A i \in 1..Len(improvements) :
              /\ LastTable.rows[i + 1].metric
                    = << "Improvement", improvements[i].window >>
              /\ improvements[i].value = None
                    => LastTable.rows[i + 1].value = << "N", "/", "A" >>


\* The place that follows a place of a cycle that produced a score.
NextPlace(p) ==
    CASE p = "append"  -> "trim"
      [] p = "trim"    -> "calc"
      [] p = "calc"    -> "log"
      [] p = "log"     -> "display"
      [] p = "display" -> "sleep"

\* The sample the current cycle appended.
JustAppended == [ts |-> timestamp[1], score |-> score[1]]

\* A cycle that produced a score goes through capture and append, trim,
\* calculation and dispatch in this order, unless it is interrupted; the
\* timestamp is captured and the sample appended in the first step, History
\* changes in the first two steps only.
CycleInOrder ==
    [][ (pc \in Dispatching /\ pc' # pc)
        => /\ pc' = NextPlace(pc) \/ (pc' = "returned" /\ interruptedAt' = pc)
           /\ pc = "append" /\ pc' = "trim"
                 => /\ timestamp' = Some(now)
                    /\ history' = Append(history, [ts |-> now, score |-> score[1]])
           /\ pc \notin {"append", "trim"} => history' = history
      ]_vars

\* The improvements that are dispatched were computed from the History as it
\* is after the trim, and where a window's improvement is present its minuend
\* is the score just polled.
DispatchedFromTrimmed ==
    pc = "log" =>
        \A i \in 1..Len(TIME_WINDOWS) :
           /\ improvements[i].value =
                 ExpectedImprovement(history, now, TIME_WINDOWS[i].delta)
           /\ improvements[i].value # None
                 => \E k \in InWindow(history, now, TIME_WINDOWS[i].delta) :
                       improvements[i].value[1] = score[1] - history[k].score

\* C18 as stated: the order of the steps, and hence, whenever the cycle is
\* past its trim, a History that is not empty and ends with the sample just
\* appended.
C18_OrderKeepsNewSample ==
    /\ CycleInOrder
    /\ [](DispatchedFromTrimmed)
    /\ [](pc \in {"calc", "log", "display"}
            => history # << >> /\ history[Len(history)] = JustAppended)

\* C18: the order of the steps; the improvements dispatched are those of the
\* History after the trim; that History ends with the sample just appended
\* if the trim read the clock at most the retention horizon after the
\* timestamp was captured, and is empty otherwise.
C18_OrderKeepsNewSampleWithinHorizon ==
    /\ CycleInOrder
    /\ [](DispatchedFromTrimmed)
    /\ [](pc \in {"calc", "log", "display"}
            => \/ history = << >>
               \/ history[Len(history)] = JustAppended)
    /\ [](pc = "calc"
            => (history = << >> <=> now - timestamp[1] > Horizon))

\* A second sample was kept by a trim that evicted the first, and the
\* improvements were computed.
C18_Witness ==
    /\ pc = "log"
    /\ appended = 2
    /\ history = << JustAppended >>


\* h2 is h with one sample added at the back.
AppendedAtBack(h, h2) ==
    /\ Len(h2) = Len(h) + 1
    /\ SubSeq(h2, 1, Len(h)) = h

\* h2 is h with one or more samples removed from the front.
RemovedFromFront(h, h2) ==
    /\ Len(h2) < Len(h)
    /\ h2 = SubSeq(h, Len(h) - Len(h2) + 1, Len(h))

\* C19: in every state reachable through run() under a non-decreasing clock
\* the timestamps of History do not decrease from front to back, and a step
\* changes History only by adding at the back or removing from the front.
C19_HistoryIsTimeOrderedQueue ==
    /\ [](\A i \in 1..(Len(history) - 1) : history[i].ts <= history[i + 1].ts)
    /\ [][ \/ history' = history
           \/ AppendedAtBack(history, history')
           \/ RemovedFromFront(history, history') ]_vars

\* After three appends and an eviction two samples are held, the older first.
C19_Witness ==
    /\ pc = "sleep"
    /\ appended = 3
    /\ Len(history) = 2
    /\ history[1].ts < history[2].ts


\* The length of the longest leading run of h whose samples are all older
\* than cutoff.
LeadingOld(h, cutoff) ==
    Max({k \in 0..Len(h) : \A j \in 1..k : h[j].ts < cutoff})

\* The number of samples of h at or after cutoff.
Kept(h, cutoff) == Cardinality({j \in 1..Len(h) : h[j].ts >= cutoff})

TimeOrdered(h) == \A i \in 1..(Len(h) - 1) : h[i].ts <= h[i + 1].ts

C22_NoSleepAfterLastCycle ==
    max_iterations >= 1 => sleeps <= max_iterations - 1


\* C23 as stated: a step of one monitor leaves the other's History, running
\* flag and configuration unchanged, and nothing mutable is shared: the lines
\* of a log destination are all written by one monitor.
C23_InstancesShareNothing ==
    /\ [][ peer' # peer => UNCHANGED <<history, running, max_iterations>> ]_vars
    /\ [][ <<history, running, max_iterations>>' # <<history, running, max_iterations>>
           => peer' = peer ]_vars
    /\ [](\A i, j \in 1..Len(log_file) :
             log_file[i].file = log_file[j].file
                => log_file[i].by = log_file[j].by)


\* The History of test_trim_history, relative to the clock value t.
TrimTestHistory(t) ==
    << [ts |-> t - 2 * SecondsPerHour, score |-> 600],
       [ts |-> t - 15 * SecondsPerMinute, score |-> 700],
       [ts |-> t - 5 * SecondsPerMinute, score |-> 800],
       [ts |-> t, score |-> 900] >>

InScoreRange(x) == 0 <= x /\ x <= 1000

\* C26 as stated: every score appended to History, logged or displayed lies
\* in [0, 10], whatever text the provider returned.
C26_ScoresWithinRange ==
    /\ \A k \in 1..Len(history) : InScoreRange(history[k].score)
    /\ \A k \in 1..Len(logCalls) : InScoreRange(logCalls[k].score)
    /\ \A k \in 1..Len(displayCalls) : InScoreRange(displayCalls[k].score)

====
